---- MODULE Spec2Model ----
(***************************************************************************)
(* RegionRequestSender (store/tikv/region_request.go): the retry loop that *)
(* sends one KV or coprocessor request to the TiKV peer the region cache   *)
(* selects, and recovers from transport failures and region errors.        *)
(*                                                                         *)
(* Each logical call c runs SendKVReq or SendCopReq.  A step of the model  *)
(* is one call of a collaborator (context, RegionCache, Client, Backoffer) *)
(* together with the local control flow that follows it, so that calls     *)
(* sharing one RegionCache interleave between collaborator calls.          *)
(*                                                                         *)
(* Optional (nullable) values are sequences of length 0 or 1.              *)
(***************************************************************************)
EXTENDS Integers, Sequences, FiniteSets, TLC

\* ------------------------------------------------------------------ bounds
NumRegions == 3
NumPeers == 2
BudgetTiKVRPC == 2
BudgetRegionMiss == 2
BudgetServerBusy == 2
MaxAttempts == 4
ConcAttempts == 1

Calls == {"c1", "c2"}
RegionVerIDs == 1..NumRegions
Peers == 1..NumPeers

Nil == << >>
Some(x) == << x >>

\* ------------------------------------------------------- messages and errors
MsgTypes == {"CmdGet", "CmdScan"}
Kinds == {"KV", "Cop"}

\* lists of successor regions a StaleEpoch error can carry for region id
NewRegionLists(id) ==
    LET others == RegionVerIDs \ {id}
    IN  {<< >>} \cup {<<a>> : a \in others}
              \cup {q \in others \X others : q[1] < q[2]}

\* errorpb.Error: a struct of optional fields, inspected in order
NoFields == [NotLeader |-> Nil, StaleEpoch |-> Nil, ServerIsBusy |-> Nil]
NotLeaderErr(leader) == [NoFields EXCEPT !.NotLeader = Some([Leader |-> leader])]
StaleEpochErr(regions) == [NoFields EXCEPT !.StaleEpoch = Some([NewRegions |-> regions])]
ServerIsBusyErr == [NoFields EXCEPT !.ServerIsBusy = Some("busy")]
OtherErr == NoFields

RegionErrors(id) ==
    {NotLeaderErr(l) : l \in {Nil} \cup {Some(p) : p \in Peers}}
      \cup {StaleEpochErr(r) : r \in NewRegionLists(id)}
      \cup {ServerIsBusyErr, OtherErr}

\* notLeader.GetLeader().GetId(): 0 when no leader is reported
GetId(leader) == IF leader = Nil THEN 0 ELSE leader[1]

\* what the transport can answer to call c: kvrpcpb.Response has a Type,
\* coprocessor.Response has none
NoType == "-"
RespTypes(k) == IF k = "KV" THEN MsgTypes ELSE {NoType}
Responses(k, id) ==
    [Type : RespTypes(k), RegionError : {Nil} \cup {Some(e) : e \in RegionErrors(id)}]

boTiKVRPC == "boTiKVRPC"
boRegionMiss == "boRegionMiss"
boServerBusy == "boServerBusy"
BackoffTypes == {boTiKVRPC, boRegionMiss, boServerBusy}

ErrCtx == [msg |-> "context done", typ |-> "-"]
ErrSend == [msg |-> "send tikv request error", typ |-> "-"]
ErrStale == [msg |-> "OnRegionStale failed", typ |-> "-"]
ErrBackoffExhausted(t) == [msg |-> "backoff exhausted", typ |-> t]
ErrBackoffCancelled(t) == [msg |-> "backoff cancelled", typ |-> t]

ErrMismatch == [msg |-> "message type mismatch", typ |-> "-"]

\* the collaborator calls a call makes: the context, the cache, the transport
\* and the backoffer
CacheMutations == {"NextPeer", "UpdateLeader", "OnRegionStale", "DropRegion"}
CallOps == {"ctx", "GetRegionByVerID", "send"} \cup CacheMutations \cup BackoffTypes

\* what is counted per call: its collaborator calls; "sendErr", the transport
\* calls that failed; "mismatch", those answered with a Type other than the
\* request's; "OnRegionStaleErr", the OnRegionStale calls that failed;
\* "unchecked", the iterations begun since the last check of the context or
\* backoff; "sinceSend", the cache mutations and backoffs since the last
\* transport call
Ops == CallOps \cup {"sendErr", "mismatch", "OnRegionStaleErr", "unchecked", "sinceSend"}

VARIABLES
    call,       \* call[c]: which method runs and its regionID argument
    req,        \* req[c]: the caller's request: its Type and its Context field
    pc,         \* pc[c]: position of call c in its loop
    region,     \* region[c]: the snapshot GetRegionByVerID returned
    sentTo,     \* sentTo[c]: the address of the last transport call
    resp,       \* resp[c]: the Response of the last transport call
    result,     \* result[c]: what Send returned: [resp, err]
    ctxDone,    \* ctxDone[c]: the context of call c is cancelled or expired
    backoff,    \* backoff[c][t]: retries the Backoffer of c has granted for t
    cache,      \* the shared RegionCache: cache[id] is Nil or Some(entry)
    ops         \* ops[c][o]: how many times call c has made collaborator call o

vars == <<call, req, pc, region, sentTo, resp, result, ctxDone, backoff, cache, ops>>

\* ------------------------------------------------------------- RegionCache
GetRegionByVerID(id) ==
    IF cache[id] = Nil THEN Nil ELSE Some([VerID |-> id, peer |-> cache[id][1].peer])

GetContext(r) == [RegionVerID |-> r.VerID, Peer |-> r.peer]
GetAddress(r) == r.peer

\* advance the selected peer to the next candidate, round robin
NextPeer(ch, id) ==
    IF ch[id] = Nil THEN ch
    ELSE [ch EXCEPT ![id] = Some([peer |-> (ch[id][1].peer % NumPeers) + 1])]

\* leaderID 0: the server reported no leader, the hint is left as it is
UpdateLeader(ch, id, leaderID) ==
    IF ch[id] = Nil \/ leaderID = 0 THEN ch
    ELSE [ch EXCEPT ![id] = Some([peer |-> leaderID])]

DropRegion(ch, id) == [ch EXCEPT ![id] = Nil]

\* replace the entry of id by the successor regions
RECURSIVE InsertRegions(_, _)
InsertRegions(ch, regions) ==
    IF regions = << >> THEN ch
    ELSE InsertRegions([ch EXCEPT ![Head(regions)] = Some([peer |-> 1])], Tail(regions))

OnRegionStale(ch, id, newRegions) == InsertRegions(DropRegion(ch, id), newRegions)

\* a failed update leaves the cache as it was, or with the stale entry gone
OnRegionStaleFailed(ch, id) == {ch, DropRegion(ch, id)}

\* --------------------------------------------------------------- Backoffer
Budget(t) ==
    IF t = boTiKVRPC THEN BudgetTiKVRPC
    ELSE IF t = boRegionMiss THEN BudgetRegionMiss
    ELSE BudgetServerBusy

\* Backoff(t, err): Nil when the retry is granted, else the failure
Backoff(c, t) ==
    IF ctxDone[c] THEN Some(ErrBackoffCancelled(t))
    ELSE IF backoff[c][t] >= Budget(t) THEN Some(ErrBackoffExhausted(t))
    ELSE Nil

Charged(c, t) ==
    IF Backoff(c, t) = Nil THEN [backoff EXCEPT ![c][t] = @ + 1] ELSE backoff

\* ------------------------------------------------------ RegionRequestSender
IsKV(c) == call[c].kind = "KV"

Bump(f, o) ==
    [f EXCEPT ![o] = @ + 1,
              !["unchecked"] = IF o \in BackoffTypes \cup {"ctx"} THEN 0
                               ELSE IF o = "GetRegionByVerID" THEN @ + 1 ELSE @,
              !["sinceSend"] = IF o = "send" THEN 0
                               ELSE IF o \in CacheMutations \cup BackoffTypes THEN @ + 1
                               ELSE @]

Count(c, o) == [ops EXCEPT ![c] = Bump(@, o)]
Count2(c, o1, o2) == [ops EXCEPT ![c] = Bump(Bump(@, o1), o2)]

\* return resp, nil  /  return nil, err
ReturnResp(r) == [resp |-> Some(r), err |-> Nil]
ReturnErr(e) == [resp |-> Nil, err |-> Some(e)]

RegionNotFoundResp_NoRegionError(c) ==
    [Type |-> IF IsKV(c) THEN req[c].Type ELSE NoType, RegionError |-> Nil]

\* the Response synthesized when the region is not in the cache
RegionNotFoundResp(c) ==
    [Type |-> IF IsKV(c) THEN req[c].Type ELSE NoType,
     RegionError |-> Some(StaleEpochErr(<< >>))]

ReturnChecked_Unchecked(c, r) == ReturnResp(r)

ReturnChecked_RespAndErr(c, r) ==
    IF IsKV(c) /\ r.Type # req[c].Type
    THEN [resp |-> Some(r), err |-> Some(ErrMismatch)]
    ELSE ReturnResp(r)

\* the end of the loop body: SendKVReq compares the types, SendCopReq does not
ReturnChecked(c, r) ==
    IF IsKV(c) /\ r.Type # req[c].Type THEN ReturnErr(ErrMismatch) ELSE ReturnResp(r)

\* the error sendKVReqToRegion / sendCopReqToRegion return when onSendFail
\* fails with e after the transport error err
SendFailErr(c, e, err) == IF IsKV(c) THEN e ELSE err

\* which branch of onRegionError a region error takes
Branch(e) ==
    IF e.NotLeader # Nil THEN "NotLeader"
    ELSE IF e.StaleEpoch # Nil THEN "StaleEpoch"
    ELSE IF e.ServerIsBusy # Nil THEN "ServerIsBusy"
    ELSE "Other"

Retry_Never(branch) == FALSE

Retry_Always(branch) == TRUE

\* the retry flag onRegionError returns with a nil error
Retry(branch) == branch # "StaleEpoch"

AfterRegionError_Unchecked(c, r, retry) ==
    IF retry
    THEN /\ pc' = [pc EXCEPT ![c] = "loop"]
         /\ result' = result
    ELSE /\ pc' = [pc EXCEPT ![c] = "return"]
         /\ result' = [result EXCEPT ![c] = ReturnResp(r)]

\* the loop position after onRegionError returned (retry, nil) for response r
AfterRegionError(c, r, retry) ==
    IF retry
    THEN /\ pc' = [pc EXCEPT ![c] = "loop"]
         /\ result' = result
    ELSE /\ pc' = [pc EXCEPT ![c] = "return"]
         /\ result' = [result EXCEPT ![c] = ReturnChecked(c, r)]

\* SendKVReq, top of the loop: select on s.bo.ctx.Done()
SelectCtxDone(c) ==
    /\ pc[c] = "loop"
    /\ IsKV(c)
    /\ ops' = Count(c, "ctx")
    /\ IF ctxDone[c]
       THEN /\ pc' = [pc EXCEPT ![c] = "return"]
            /\ result' = [result EXCEPT ![c] = ReturnErr(ErrCtx)]
       ELSE /\ pc' = [pc EXCEPT ![c] = "resolve"]
            /\ result' = result
    /\ UNCHANGED <<call, req, region, sentTo, resp, ctxDone, backoff, cache>>

GetRegion_ReusesSnapshot(c) ==
    /\ \/ IsKV(c) /\ pc[c] = "resolve"
       \/ ~IsKV(c) /\ pc[c] = "loop"
    /\ IF region[c] # Nil
       THEN /\ pc' = [pc EXCEPT ![c] = "send"]
            /\ UNCHANGED <<region, result, ops>>
       ELSE /\ ops' = Count(c, "GetRegionByVerID")
            /\ region' = [region EXCEPT ![c] = GetRegionByVerID(call[c].regionID)]
            /\ IF GetRegionByVerID(call[c].regionID) = Nil
               THEN /\ pc' = [pc EXCEPT ![c] = "return"]
                    /\ result' = [result EXCEPT ![c] = ReturnResp(RegionNotFoundResp(c))]
               ELSE /\ pc' = [pc EXCEPT ![c] = "send"]
                    /\ result' = result
    /\ UNCHANGED <<call, req, sentTo, resp, ctxDone, backoff, cache>>

GetRegion_KeepsStaleSnapshot(c) ==
    /\ \/ IsKV(c) /\ pc[c] = "resolve"
       \/ ~IsKV(c) /\ pc[c] = "loop"
    /\ ops' = Count(c, "GetRegionByVerID")
    /\ IF GetRegionByVerID(call[c].regionID) = Nil /\ region[c] = Nil
       THEN /\ pc' = [pc EXCEPT ![c] = "return"]
            /\ result' = [result EXCEPT ![c] = ReturnResp(RegionNotFoundResp(c))]
            /\ region' = region
       ELSE /\ pc' = [pc EXCEPT ![c] = "send"]
            /\ result' = result
            /\ region' = [region EXCEPT ![c] =
                             IF GetRegionByVerID(call[c].regionID) = Nil THEN @
                             ELSE GetRegionByVerID(call[c].regionID)]
    /\ UNCHANGED <<call, req, sentTo, resp, ctxDone, backoff, cache>>

\* region := s.regionCache.GetRegionByVerID(regionID), first in SendCopReq's loop
GetRegion(c) ==
    /\ \/ IsKV(c) /\ pc[c] = "resolve"
       \/ ~IsKV(c) /\ pc[c] = "loop"
    /\ ops' = Count(c, "GetRegionByVerID")
    /\ region' = [region EXCEPT ![c] = GetRegionByVerID(call[c].regionID)]
    /\ IF GetRegionByVerID(call[c].regionID) = Nil
       THEN /\ pc' = [pc EXCEPT ![c] = "return"]
            /\ result' = [result EXCEPT ![c] = ReturnResp(RegionNotFoundResp(c))]
       ELSE /\ pc' = [pc EXCEPT ![c] = "send"]
            /\ result' = result
    /\ UNCHANGED <<call, req, sentTo, resp, ctxDone, backoff, cache>>

\* sendKVReqToRegion / sendCopReqToRegion: the transport fails
SendFails(c) ==
    /\ pc[c] = "send"
    /\ ops[c]["send"] < call[c].attempts
    /\ req' = [req EXCEPT ![c].Context = Some(GetContext(region[c][1]))]
    /\ sentTo' = [sentTo EXCEPT ![c] = Some(GetAddress(region[c][1]))]
    /\ ops' = Count2(c, "send", "sendErr")
    /\ resp' = [resp EXCEPT ![c] = Nil]
    /\ pc' = [pc EXCEPT ![c] = "onSendFail"]
    /\ UNCHANGED <<call, region, result, ctxDone, backoff, cache>>

\* sendKVReqToRegion / sendCopReqToRegion: the transport answers r
SendAnswers(c) ==
    /\ pc[c] = "send"
    /\ ops[c]["send"] < call[c].attempts
    /\ req' = [req EXCEPT ![c].Context = Some(GetContext(region[c][1]))]
    /\ sentTo' = [sentTo EXCEPT ![c] = Some(GetAddress(region[c][1]))]
    /\ \E r \in Responses(call[c].kind, call[c].regionID) :
          /\ resp' = [resp EXCEPT ![c] = Some(r)]
          /\ ops' = IF r.Type # req[c].Type THEN Count2(c, "send", "mismatch")
                    ELSE Count(c, "send")
          /\ IF r.RegionError = Nil
             THEN /\ pc' = [pc EXCEPT ![c] = "return"]
                  /\ result' = [result EXCEPT ![c] = ReturnChecked(c, r)]
             ELSE /\ pc' = [pc EXCEPT ![c] = Branch(r.RegionError[1])]
                  /\ result' = result
    /\ UNCHANGED <<call, region, ctxDone, backoff, cache>>

OnSendFailNextPeer_Skipped(c) ==
    /\ pc[c] = "onSendFail"
    /\ pc' = [pc EXCEPT ![c] = "onSendFailBackoff"]
    /\ UNCHANGED <<call, req, region, sentTo, resp, result, ctxDone, backoff, cache, ops>>

\* onSendFail: s.regionCache.NextPeer(regionID)
OnSendFailNextPeer(c) ==
    /\ pc[c] = "onSendFail"
    /\ cache' = NextPeer(cache, region[c][1].VerID)
    /\ ops' = Count(c, "NextPeer")
    /\ pc' = [pc EXCEPT ![c] = "onSendFailBackoff"]
    /\ UNCHANGED <<call, req, region, sentTo, resp, result, ctxDone, backoff>>

OnSendFailBackoff_ErrorIgnored(c) ==
    /\ pc[c] = "onSendFailBackoff"
    /\ ops' = Count(c, boTiKVRPC)
    /\ backoff' = Charged(c, boTiKVRPC)
    /\ pc' = [pc EXCEPT ![c] = "loop"]
    /\ UNCHANGED <<call, req, region, sentTo, resp, result, ctxDone, cache>>

\* onSendFail: s.bo.Backoff(boTiKVRPC, ...), and the return to the loop
OnSendFailBackoff(c) ==
    /\ pc[c] = "onSendFailBackoff"
    /\ ops' = Count(c, boTiKVRPC)
    /\ backoff' = Charged(c, boTiKVRPC)
    /\ IF Backoff(c, boTiKVRPC) = Nil
       THEN /\ pc' = [pc EXCEPT ![c] = "loop"]
            /\ result' = result
       ELSE /\ pc' = [pc EXCEPT ![c] = "return"]
            /\ result' = [result EXCEPT ![c] =
                    ReturnErr(SendFailErr(c, Backoff(c, boTiKVRPC)[1], ErrSend))]
    /\ UNCHANGED <<call, req, region, sentTo, resp, ctxDone, cache>>

NotLeaderUpdateLeader_NoUpdate(c) ==
    /\ pc[c] = "NotLeader"
    /\ IF resp[c][1].RegionError[1].NotLeader[1].Leader = Nil
       THEN /\ pc' = [pc EXCEPT ![c] = "NotLeaderBackoff"]
            /\ result' = result
       ELSE AfterRegionError(c, resp[c][1], Retry("NotLeader"))
    /\ UNCHANGED <<call, req, region, sentTo, resp, ctxDone, backoff, cache, ops>>

NotLeaderUpdateLeader_AlwaysBackoff(c) ==
    /\ pc[c] = "NotLeader"
    /\ LET notLeader == resp[c][1].RegionError[1].NotLeader[1] IN
          cache' = UpdateLeader(cache, region[c][1].VerID, GetId(notLeader.Leader))
    /\ pc' = [pc EXCEPT ![c] = "NotLeaderBackoff"]
    /\ ops' = Count(c, "UpdateLeader")
    /\ UNCHANGED <<call, req, region, sentTo, resp, result, ctxDone, backoff>>

\* onRegionError, NotLeader: s.regionCache.UpdateLeader(...)
NotLeaderUpdateLeader(c) ==
    /\ pc[c] = "NotLeader"
    /\ LET notLeader == resp[c][1].RegionError[1].NotLeader[1] IN
          /\ cache' = UpdateLeader(cache, region[c][1].VerID, GetId(notLeader.Leader))
          /\ IF notLeader.Leader = Nil
             THEN /\ pc' = [pc EXCEPT ![c] = "NotLeaderBackoff"]
                  /\ result' = result
             ELSE AfterRegionError(c, resp[c][1], Retry("NotLeader"))
    /\ ops' = Count(c, "UpdateLeader")
    /\ UNCHANGED <<call, req, region, sentTo, resp, ctxDone, backoff>>

\* the backoff of a region error branch, and the return to the loop
RegionErrorBackoff(c, t, branch) ==
    /\ ops' = Count(c, t)
    /\ backoff' = Charged(c, t)
    /\ IF Backoff(c, t) = Nil
       THEN AfterRegionError(c, resp[c][1], Retry(branch))
       ELSE /\ pc' = [pc EXCEPT ![c] = "return"]
            /\ result' = [result EXCEPT ![c] = ReturnErr(Backoff(c, t)[1])]
    /\ UNCHANGED <<call, req, region, sentTo, resp, ctxDone, cache>>

\* onRegionError, NotLeader without a leader: s.bo.Backoff(boRegionMiss, ...)
NotLeaderBackoff(c) ==
    /\ pc[c] = "NotLeaderBackoff"
    /\ RegionErrorBackoff(c, boRegionMiss, "NotLeader")

StaleEpochOnRegionStale_ErrorDropped(c) ==
    /\ pc[c] = "StaleEpoch"
    /\ LET staleEpoch == resp[c][1].RegionError[1].StaleEpoch[1] IN
          \/ /\ cache' = OnRegionStale(cache, region[c][1].VerID, staleEpoch.NewRegions)
             /\ ops' = Count(c, "OnRegionStale")
          \/ /\ cache' \in OnRegionStaleFailed(cache, region[c][1].VerID)
             /\ ops' = Count2(c, "OnRegionStale", "OnRegionStaleErr")
    /\ AfterRegionError(c, resp[c][1], Retry("StaleEpoch"))
    /\ UNCHANGED <<call, req, region, sentTo, resp, ctxDone, backoff>>

\* onRegionError, StaleEpoch: s.regionCache.OnRegionStale(region, NewRegions)
StaleEpochOnRegionStale(c) ==
    /\ pc[c] = "StaleEpoch"
    /\ LET staleEpoch == resp[c][1].RegionError[1].StaleEpoch[1] IN
          \/ /\ cache' = OnRegionStale(cache, region[c][1].VerID, staleEpoch.NewRegions)
             /\ ops' = Count(c, "OnRegionStale")
             /\ AfterRegionError(c, resp[c][1], Retry("StaleEpoch"))
          \/ /\ cache' \in OnRegionStaleFailed(cache, region[c][1].VerID)
             /\ ops' = Count2(c, "OnRegionStale", "OnRegionStaleErr")
             /\ pc' = [pc EXCEPT ![c] = "return"]
             /\ result' = [result EXCEPT ![c] = ReturnErr(ErrStale)]
    /\ UNCHANGED <<call, req, region, sentTo, resp, ctxDone, backoff>>

ServerIsBusyBackoff_ReturnsResp(c) ==
    /\ pc[c] = "ServerIsBusy"
    /\ ops' = Count(c, boServerBusy)
    /\ backoff' = Charged(c, boServerBusy)
    /\ IF Backoff(c, boServerBusy) = Nil
       THEN /\ pc' = [pc EXCEPT ![c] = "loop"]
            /\ result' = result
       ELSE /\ pc' = [pc EXCEPT ![c] = "return"]
            /\ result' = [result EXCEPT ![c] = ReturnResp(resp[c][1])]
    /\ UNCHANGED <<call, req, region, sentTo, resp, ctxDone, cache>>

\* onRegionError, ServerIsBusy: s.bo.Backoff(boServerBusy, ...)
ServerIsBusyBackoff(c) ==
    /\ pc[c] = "ServerIsBusy"
    /\ RegionErrorBackoff(c, boServerBusy, "ServerIsBusy")

OtherDropRegion_NoDrop(c) ==
    /\ pc[c] = "Other"
    /\ AfterRegionError(c, resp[c][1], Retry("Other"))
    /\ UNCHANGED <<call, req, region, sentTo, resp, ctxDone, backoff, cache, ops>>

\* onRegionError, any other region error: s.regionCache.DropRegion(...)
OtherDropRegion(c) ==
    /\ pc[c] = "Other"
    /\ cache' = DropRegion(cache, region[c][1].VerID)
    /\ ops' = Count(c, "DropRegion")
    /\ AfterRegionError(c, resp[c][1], Retry("Other"))
    /\ UNCHANGED <<call, req, region, sentTo, resp, ctxDone, backoff>>

\* the caller cancels the context of c, or its deadline passes
Cancel(c) ==
    /\ pc[c] \notin {"idle", "return"}
    /\ ~ctxDone[c]
    /\ ctxDone' = [ctxDone EXCEPT ![c] = TRUE]
    /\ UNCHANGED <<call, req, pc, region, sentTo, resp, result, backoff, cache, ops>>

Step(c) ==
    \/ SelectCtxDone(c)
    \/ GetRegion(c)
    \/ SendFails(c)
    \/ SendAnswers(c)
    \/ OnSendFailNextPeer(c)
    \/ OnSendFailBackoff(c)
    \/ NotLeaderUpdateLeader(c)
    \/ NotLeaderBackoff(c)
    \/ StaleEpochOnRegionStale(c)
    \/ ServerIsBusyBackoff(c)
    \/ OtherDropRegion(c)
    \/ Cancel(c)

Next == \E c \in Calls : Step(c)

\* the calls in `running' have just been made, the others are never made;
\* `attempts' transport calls of each call are explored
InitWith(running, attempts) ==
    /\ call \in [Calls -> [kind : Kinds, regionID : RegionVerIDs, attempts : {attempts}]]
    /\ req \in [Calls -> [Type : MsgTypes \cup {NoType}, Context : {Nil}]]
    /\ \A c \in Calls : req[c].Type \in RespTypes(call[c].kind)
    /\ \A c \in Calls \ running : /\ call[c].kind = "KV"
                                   /\ call[c].regionID = 1
                                   /\ req[c].Type = "CmdGet"
    /\ pc = [c \in Calls |-> IF c \in running THEN "loop" ELSE "idle"]
    /\ region = [c \in Calls |-> Nil]
    /\ sentTo = [c \in Calls |-> Nil]
    /\ resp = [c \in Calls |-> Nil]
    /\ result = [c \in Calls |-> [resp |-> Nil, err |-> Nil]]
    /\ ctxDone \in [Calls -> BOOLEAN]
    /\ \A c \in Calls \ running : ~ctxDone[c]
    /\ backoff = [c \in Calls |-> [t \in BackoffTypes |-> 0]]
    /\ cache \in [RegionVerIDs -> {Nil, Some([peer |-> 1])}]
    /\ ops = [c \in Calls |-> [o \in Ops |-> 0]]

Init == InitWith({"c1"}, MaxAttempts)

Spec == Init /\ [][Next]_vars

\* two calls made at the same time against the one cache, each with its own
\* context and Backoffer; the first is for region 1 and no context is done yet
\* (Cancel can make it so before the first step)
InitConc ==
    /\ InitWith(Calls, ConcAttempts)
    /\ call["c1"].regionID = 1
    /\ call["c2"].regionID \in {1, 2}
    /\ \A c \in Calls : ~ctxDone[c] /\ req[c].Type \in {"CmdGet", NoType}

SpecConc == InitConc /\ [][Next]_vars

\* ------------------------------------------------------------- properties
Returned(c) == pc[c] = "return"
Did(c, o) == ops'[c][o] = ops[c][o] + 1
Same(c, o) == ops'[c][o] = ops[c][o]
IsStaleEpochNoRegions(r) == r.RegionError = Some(StaleEpochErr(<< >>))

\* C1: when GetRegionByVerID finds no region for the identity, Send returns in
\* that iteration, without a transport call, a Response whose region error is
\* StaleEpoch with no new regions, and a nil error.
C1_UnknownRegionReturnsStaleEpoch ==
    [][\A c \in Calls :
          (Did(c, "GetRegionByVerID") /\ cache[call[c].regionID] = Nil)
          => /\ pc'[c] = "return"
             /\ result'[c].err = Nil
             /\ result'[c].resp # Nil
             /\ IsStaleEpochNoRegions(result'[c].resp[1])
             /\ Same(c, "send")]_vars

\* an unknown identity met after a retry: the region was dropped meanwhile
C1_Witness ==
    \E c \in Calls :
        /\ Returned(c) /\ region[c] = Nil
        /\ ops[c]["GetRegionByVerID"] = 2 /\ ops[c]["send"] = 1
        /\ result[c].resp # Nil /\ IsStaleEpochNoRegions(result[c].resp[1])

\* C2: a call that has returned has a Response or an error, never both and
\* never neither; a call that has not returned has produced neither.
C2_ExactlyOneOutcome ==
    \A c \in Calls :
        IF Returned(c)
        THEN (result[c].resp = Nil) # (result[c].err = Nil)
        ELSE result[c].resp = Nil /\ result[c].err = Nil

\* an error returned after retries, and a Response returned after retries
C2_Witness ==
    \E c \in Calls :
        Returned(c) /\ ops[c]["send"] >= 2 /\ ops[c]["mismatch"] >= 1
                    /\ result[c].err = Some(ErrMismatch)

\* C3: an iteration that begins with the context done ends the call with the
\* context's error, without a cache lookup and without a transport call.
C3_CancelCheckedEveryIteration ==
    [][\A c \in Calls :
          (pc[c] = "loop" /\ ctxDone[c] /\ pc'[c] # "loop")
          => /\ pc'[c] = "return"
             /\ result'[c] = ReturnErr(ErrCtx)
             /\ Same(c, "GetRegionByVerID")
             /\ Same(c, "send")]_vars

\* the last transport call of c was answered by a Response without region error
AnsweredNoRegionError(c) == resp[c] # Nil /\ resp[c][1].RegionError = Nil
TypeMatches(c) == resp[c][1].Type = req[c].Type

\* NextPeer has been called once per transport failure before the next attempt
NextPeerPerFailure ==
    \A c \in Calls :
        pc[c] \in {"loop", "resolve", "send", "return"} \cup
                  {"NotLeader", "NotLeaderBackoff", "StaleEpoch", "ServerIsBusy", "Other"}
        => ops[c]["NextPeer"] = ops[c]["sendErr"]

\* C4 as stated: after N transport failures in a row and then an answer
\* without region error, Send has returned that Response with a nil error and
\* has called NextPeer N times, once per failure before the next attempt.
C4_Original ==
    /\ NextPeerPerFailure
    /\ \A c \in Calls :
          (Returned(c) /\ AnsweredNoRegionError(c)
                       /\ ops[c]["send"] = ops[c]["sendErr"] + 1)
          => /\ result[c] = ReturnResp(resp[c][1])
             /\ ops[c]["NextPeer"] = ops[c]["sendErr"]

\* C4 as amended: the same, for an answer whose Type is the request's.
C4_FailuresThenSuccess ==
    /\ NextPeerPerFailure
    /\ \A c \in Calls :
          (Returned(c) /\ AnsweredNoRegionError(c) /\ TypeMatches(c)
                       /\ ops[c]["send"] = ops[c]["sendErr"] + 1)
          => /\ result[c] = ReturnResp(resp[c][1])
             /\ ops[c]["NextPeer"] = ops[c]["sendErr"]

\* as many failures as the budget grants, then the answer is returned
C4_Witness ==
    \E c \in Calls :
        /\ Returned(c) /\ AnsweredNoRegionError(c) /\ TypeMatches(c)
        /\ ops[c]["sendErr"] = BudgetTiKVRPC
        /\ ops[c]["send"] = BudgetTiKVRPC + 1
        /\ ops[c]["NextPeer"] = BudgetTiKVRPC
        /\ result[c].resp = resp[c]

\* C5: the boTiKVRPC backoff that is refused ends the call with an error and
\* no Response; more transport failures than the budget always end so, and a
\* call that has returned makes no further collaborator call.
C5_BudgetExceededIsFatal ==
    [][\A c \in Calls :
          /\ (Did(c, boTiKVRPC) /\ Backoff(c, boTiKVRPC) # Nil)
             => /\ pc'[c] = "return"
                /\ result'[c].resp = Nil
                /\ result'[c].err # Nil
                /\ Same(c, "send")
          /\ (ops'[c]["sendErr"] > BudgetTiKVRPC
                /\ pc'[c] \notin {"onSendFail", "onSendFailBackoff"})
             => pc'[c] = "return" /\ result'[c].resp = Nil /\ result'[c].err # Nil
          /\ Returned(c) => ops'[c] = ops[c]]_vars

\* one failure more than the budget: the last charge was refused as exhausted
C5_Witness ==
    \E c \in Calls :
        /\ Returned(c) /\ ~ctxDone[c]
        /\ ops[c]["sendErr"] = BudgetTiKVRPC + 1
        /\ ops[c]["send"] = BudgetTiKVRPC + 1
        /\ backoff[c][boTiKVRPC] = BudgetTiKVRPC
        /\ result[c].resp = Nil /\ result[c].err # Nil

\* the step of c that handles the region error of branch b
Handles(c, b) == pc[c] = b /\ pc'[c] # b
NotLeaderOf(c) == resp[c][1].RegionError[1].NotLeader[1]

\* C6: a NotLeader answer makes the sender call UpdateLeader once with the
\* reported leader id; with a leader it retries and calls no boRegionMiss
\* backoff; without one it calls that backoff once, retries when the retry is
\* granted and returns the refusal as the error when it is not.
C6_NotLeader ==
    [][\A c \in Calls :
          /\ (Did(c, "send") /\ resp'[c] # Nil /\ resp'[c][1].RegionError # Nil
                /\ resp'[c][1].RegionError[1].NotLeader # Nil)
             => pc'[c] = "NotLeader"
          /\ Did(c, "UpdateLeader") => Handles(c, "NotLeader")
          /\ Did(c, boRegionMiss) => Handles(c, "NotLeaderBackoff")
          /\ Handles(c, "NotLeader")
             => /\ Did(c, "UpdateLeader")
                /\ cache' = UpdateLeader(cache, call[c].regionID,
                                         GetId(NotLeaderOf(c).Leader))
                /\ backoff' = backoff
                /\ Same(c, boRegionMiss)
                /\ pc'[c] = IF NotLeaderOf(c).Leader # Nil
                            THEN "loop" ELSE "NotLeaderBackoff"
          /\ Handles(c, "NotLeaderBackoff")
             => /\ NotLeaderOf(c).Leader = Nil
                /\ Did(c, boRegionMiss)
                /\ Same(c, "UpdateLeader")
                /\ IF Backoff(c, boRegionMiss) = Nil
                   THEN /\ pc'[c] = "loop"
                        /\ backoff'[c][boRegionMiss] = backoff[c][boRegionMiss] + 1
                   ELSE /\ pc'[c] = "return"
                        /\ result'[c] = ReturnErr(Backoff(c, boRegionMiss)[1])
                        /\ backoff' = backoff]_vars

\* NotLeader with a leader, NotLeader without one, then an answer: two leader
\* updates and one boRegionMiss backoff
C6_Witness ==
    \E c \in Calls :
        /\ Returned(c) /\ AnsweredNoRegionError(c) /\ result[c].resp = resp[c]
        /\ ops[c]["send"] = 3
        /\ ops[c]["UpdateLeader"] = 2
        /\ ops[c][boRegionMiss] = 1
        /\ cache[call[c].regionID] = Some([peer |-> NumPeers])

StaleEpochOf(c) == resp[c][1].RegionError[1].StaleEpoch[1]

\* C7 as stated: a StaleEpoch answer makes the sender replace the cache entry
\* of the region by the new regions, call no backoff and no transport, and
\* return the Response carrying the StaleEpoch error with a nil error.
C7_Original ==
    [][\A c \in Calls :
          Handles(c, "StaleEpoch")
          => /\ cache' = OnRegionStale(cache, call[c].regionID, StaleEpochOf(c).NewRegions)
             /\ backoff' = backoff
             /\ Same(c, "send")
             /\ pc'[c] = "return"
             /\ result'[c] = ReturnResp(resp[c][1])]_vars

\* C7 as amended: a StaleEpoch answer makes the sender call OnRegionStale once
\* with the new regions (also when there are none) and return without a
\* backoff and without another transport call; it returns the failure of the
\* cache update when that fails, else the mismatch error when the Type of a KV
\* Response is not the request's, else the cache entry is replaced and the
\* Response carrying the StaleEpoch error is returned with a nil error.
C7_StaleEpoch ==
    [][\A c \in Calls :
          /\ (Did(c, "send") /\ resp'[c] # Nil /\ resp'[c][1].RegionError # Nil
                /\ resp'[c][1].RegionError[1].StaleEpoch # Nil)
             => pc'[c] = "StaleEpoch"
          /\ Did(c, "OnRegionStale") => Handles(c, "StaleEpoch")
          /\ Handles(c, "StaleEpoch")
             => /\ Did(c, "OnRegionStale")
                /\ backoff' = backoff
                /\ \A t \in BackoffTypes : Same(c, t)
                /\ Same(c, "send")
                /\ pc'[c] = "return"
                /\ \/ result'[c] = ReturnErr(ErrStale)
                   \/ /\ cache' = OnRegionStale(cache, call[c].regionID,
                                                StaleEpochOf(c).NewRegions)
                      /\ result'[c] = IF IsKV(c) /\ ~TypeMatches(c)
                                      THEN ReturnErr(ErrMismatch)
                                      ELSE ReturnResp(resp[c][1])]_vars

\* a StaleEpoch answer without new regions is returned and the entry is gone
C7_Witness ==
    \E c \in Calls :
        /\ Returned(c) /\ ops[c]["OnRegionStale"] = 1
        /\ result[c].resp = resp[c] /\ result[c].err = Nil
        /\ IsStaleEpochNoRegions(resp[c][1])
        /\ cache[call[c].regionID] = Nil

\* C8: any other region error makes the sender drop the cache entry of the
\* region, call no backoff, not retry, and return the server's Response
\* carrying that error with a nil error.
C8_OtherReturnedUnresolved ==
    [][\A c \in Calls :
          Handles(c, "Other")
          => /\ cache' = DropRegion(cache, call[c].regionID)
             /\ backoff' = backoff
             /\ pc'[c] = "return"
             /\ result'[c] = ReturnResp(resp[c][1])]_vars

\* C9: a ServerIsBusy answer makes the sender call the boServerBusy backoff
\* once, leaving the cache and the request as they are; it retries when the
\* retry is granted, and returns the refusal as the error, without the busy
\* Response, when it is not.
C9_ServerIsBusy ==
    [][\A c \in Calls :
          /\ (Did(c, "send") /\ resp'[c] # Nil /\ resp'[c][1].RegionError # Nil
                /\ resp'[c][1].RegionError[1] = ServerIsBusyErr)
             => pc'[c] = "ServerIsBusy"
          /\ Did(c, boServerBusy) => Handles(c, "ServerIsBusy")
          /\ Handles(c, "ServerIsBusy")
             => /\ Did(c, boServerBusy)
                /\ cache' = cache
                /\ req' = req
                /\ IF Backoff(c, boServerBusy) = Nil
                   THEN /\ pc'[c] = "loop"
                        /\ backoff'[c][boServerBusy] = backoff[c][boServerBusy] + 1
                   ELSE /\ pc'[c] = "return"
                        /\ result'[c] = ReturnErr(Backoff(c, boServerBusy)[1])
                        /\ backoff' = backoff]_vars

\* one busy answer more than the budget: the exhausted backoff is the error
C9_Witness ==
    \E c \in Calls :
        /\ Returned(c) /\ ~ctxDone[c]
        /\ ops[c][boServerBusy] = BudgetServerBusy + 1
        /\ backoff[c][boServerBusy] = BudgetServerBusy
        /\ result[c] = ReturnErr(ErrBackoffExhausted(boServerBusy))

\* C10 as stated: a call in which some transport call was answered by a
\* Response of another Type than the request's returns the mismatch error.
C10_Original ==
    \A c \in Calls :
        (Returned(c) /\ ops[c]["mismatch"] > 0) => result[c] = ReturnErr(ErrMismatch)

\* C10 as amended: SendKVReq never returns a Response of another Type than
\* the request's; it returns the mismatch error when the answer of that Type
\* carries no region error, or carries StaleEpoch and the cache update
\* succeeds.  (An answer carrying another region error is retried unchecked.)
C10_MismatchNeverReturned ==
    \A c \in Calls :
        Returned(c) =>
          /\ (IsKV(c) /\ result[c].resp # Nil) => result[c].resp[1].Type = req[c].Type
          /\ (resp[c] # Nil /\ ~TypeMatches(c) /\ result[c].err # Some(ErrStale)
                /\ \/ resp[c][1].RegionError = Nil
                   \/ /\ resp[c][1].RegionError[1].StaleEpoch # Nil
                      /\ resp[c][1].RegionError[1].NotLeader = Nil)
             => result[c] = ReturnErr(ErrMismatch)

\* a mismatched answer after a retry ends the call with the mismatch error
C10_Witness ==
    \E c \in Calls :
        /\ Returned(c) /\ IsKV(c) /\ ops[c]["send"] = 2
        /\ AnsweredNoRegionError(c) /\ ~TypeMatches(c)
        /\ result[c] = ReturnErr(ErrMismatch)

\* C11: the sender never retries without end with neither a backoff nor a
\* check of the context in between: a run of iterations begun since the last
\* of either never grows as long as the attempts explored.
C11_NoUncheckedRetryRun ==
    \A c \in Calls : ops[c]["unchecked"] < MaxAttempts

\* C12: before every transport call of a call but its first, the call has
\* made a cache mutation (NextPeer, UpdateLeader, DropRegion) or called a
\* backoff since its previous transport call.
C12_RetryMutatesOrBacksOff ==
    \A c \in Calls :
        (pc[c] = "send" /\ ops[c]["send"] >= 1) => ops[c]["sinceSend"] >= 1

\* two retries that went through UpdateLeader alone, without any backoff
C12_Witness ==
    \E c \in Calls :
        /\ pc[c] = "send" /\ ops[c]["send"] = 2 /\ ops[c]["sinceSend"] = 1
        /\ ops[c]["UpdateLeader"] = 2
        /\ \A t \in BackoffTypes : ops[c][t] = 0

\* C13: a Response that Send returns carries no region error, or a StaleEpoch
\* or other region error, never NotLeader and never ServerIsBusy.
C13_NotLeaderAndBusyNotSurfaced ==
    \A c \in Calls :
        (Returned(c) /\ result[c].resp # Nil /\ result[c].resp[1].RegionError # Nil)
        => Branch(result[c].resp[1].RegionError[1]) \in {"StaleEpoch", "Other"}

\* a Response returned after a NotLeader and a ServerIsBusy answer were recovered
C13_Witness ==
    \E c \in Calls :
        /\ Returned(c) /\ result[c].resp # Nil /\ result[c].resp = resp[c]
        /\ ops[c]["UpdateLeader"] = 1 /\ ops[c][boServerBusy] = 1
        /\ ops[c]["send"] = 3

\* the last answer to c was NotLeader and reported a leader
AnsweredNotLeaderWithLeader(c) ==
    /\ resp[c] # Nil /\ resp[c][1].RegionError # Nil
    /\ resp[c][1].RegionError[1].NotLeader # Nil
    /\ NotLeaderOf(c).Leader # Nil

\* the attempt that follows a NotLeader answer with a leader goes to that leader
NextAttemptToLeader(c) ==
    LET p2 == NotLeaderOf(c).Leader[1] IN
        /\ cache[call[c].regionID] = Some([peer |-> p2])
        /\ region[c] = Some([VerID |-> call[c].regionID, peer |-> p2])
        /\ sentTo'[c] = Some(p2)
        /\ req'[c].Context = Some([RegionVerID |-> call[c].regionID, Peer |-> p2])

\* C14 as stated: after a NotLeader answer that reports leader p2, the next
\* attempt of the call is sent to p2, which the cache now selects, and when it
\* is answered without region error that Response is returned with a nil error.
C14_Original ==
    [][\A c \in Calls :
          (Did(c, "send") /\ AnsweredNotLeaderWithLeader(c))
          => /\ NextAttemptToLeader(c)
             /\ (resp'[c] # Nil /\ resp'[c][1].RegionError = Nil)
                => pc'[c] = "return" /\ result'[c] = ReturnResp(resp'[c][1])]_vars

\* C14 as amended: the same, the Response being returned when, for a KV
\* request, its Type is the request's.
C14_RetryGoesToReportedLeader ==
    [][\A c \in Calls :
          (Did(c, "send") /\ AnsweredNotLeaderWithLeader(c))
          => /\ NextAttemptToLeader(c)
             /\ (resp'[c] # Nil /\ resp'[c][1].RegionError = Nil
                   /\ resp'[c][1].Type = req[c].Type)
                => pc'[c] = "return" /\ result'[c] = ReturnResp(resp'[c][1])]_vars

\* peer 1 answers NotLeader with leader 2, peer 2 answers, its Response is returned
C14_Witness ==
    \E c \in Calls :
        /\ Returned(c) /\ AnsweredNoRegionError(c) /\ result[c] = ReturnResp(resp[c][1])
        /\ ops[c]["send"] = 2 /\ ops[c]["UpdateLeader"] = 1
        /\ ops[c]["GetRegionByVerID"] = 2
        /\ sentTo[c] = Some(2)

\* C15: onSendFail calls NextPeer and then the boTiKVRPC backoff, and when the
\* backoff fails Send returns that failure, not the transport error.
C15_BackoffFailureReturned ==
    [][\A c \in Calls :
          /\ Did(c, "NextPeer")
             => Handles(c, "onSendFail") /\ pc'[c] = "onSendFailBackoff"
          /\ Did(c, boTiKVRPC) => Handles(c, "onSendFailBackoff")
          /\ Handles(c, "onSendFailBackoff")
             => /\ Did(c, boTiKVRPC)
                /\ Backoff(c, boTiKVRPC) # Nil
                   => result'[c] = ReturnErr(Backoff(c, boTiKVRPC)[1])]_vars

\* the positions of a call inside onRegionError
RegionErrorBranches == {"NotLeader", "NotLeaderBackoff", "StaleEpoch", "ServerIsBusy", "Other"}

\* onRegionError ends the call of c with (false, nil): no collaborator failed
NoRetryRecovery(c) ==
    /\ pc[c] \in RegionErrorBranches /\ pc'[c] = "return"
    /\ ~Did(c, "OnRegionStaleErr")
    /\ \A t \in BackoffTypes : ~Did(c, t)

\* c returns in this step with the mismatch error
ReturnsMismatch(c) ==
    pc[c] # "return" /\ pc'[c] = "return" /\ result'[c].err = Some(ErrMismatch)

\* C17 as stated: the mismatch error is returned only for a Response without
\* region error, and when recovery says not to retry, Send returns the Response
\* carrying the region error with a nil error whatever its Type.
C17_Original ==
    [][\A c \in Calls :
          /\ ReturnsMismatch(c) => resp'[c] # Nil /\ resp'[c][1].RegionError = Nil
          /\ NoRetryRecovery(c) => result'[c] = ReturnResp(resp[c][1])]_vars

\* C17 as amended: the mismatch error is returned only by SendKVReq and only
\* for a Response of another Type than the request's, with or without region
\* error; when recovery says not to retry, SendKVReq returns the mismatch error
\* for such a Response, and otherwise Send returns the Response carrying the
\* region error with a nil error.
C17_NoRetryResponseIsChecked ==
    [][\A c \in Calls :
          /\ ReturnsMismatch(c)
             => IsKV(c) /\ resp'[c] # Nil /\ resp'[c][1].Type # req[c].Type
          /\ NoRetryRecovery(c)
             => result'[c] = IF IsKV(c) /\ ~TypeMatches(c)
                             THEN ReturnErr(ErrMismatch)
                             ELSE ReturnResp(resp[c][1])]_vars

\* a KV Response of another Type carrying StaleEpoch ended in the mismatch error
C17_Witness ==
    \E c \in Calls :
        /\ Returned(c) /\ IsKV(c) /\ result[c] = ReturnErr(ErrMismatch)
        /\ ops[c]["OnRegionStale"] = 1 /\ ops[c]["OnRegionStaleErr"] = 0
        /\ resp[c] # Nil /\ resp[c][1].RegionError # Nil /\ ~TypeMatches(c)

\* C18: when the cache update after a StaleEpoch answer fails, Send returns
\* that failure as the error, with no Response, and makes no further attempt.
C18_OnRegionStaleFailureIsFatal ==
    \A c \in Calls :
        ops[c]["OnRegionStaleErr"] > 0
        => /\ Returned(c) /\ result[c] = ReturnErr(ErrStale)
           /\ ops[c]["OnRegionStaleErr"] = 1
           /\ resp[c] # Nil /\ resp[c][1].RegionError # Nil
           /\ resp[c][1].RegionError[1].StaleEpoch # Nil

\* the cache update of a second attempt's StaleEpoch answer failed
C18_Witness ==
    \E c \in Calls :
        /\ Returned(c) /\ result[c] = ReturnErr(ErrStale)
        /\ ops[c]["OnRegionStaleErr"] = 1 /\ ops[c]["send"] = 2

\* the collaborator calls that c can make next
NextCalls(c) == {o \in CallOps : ENABLED (Step(c) /\ Did(c, o))}

\* the errors that c can return next
NextErrs(c) ==
    {e \in {ErrCtx, ErrSend, ErrStale, ErrMismatch}
           \cup {ErrBackoffExhausted(t) : t \in BackoffTypes}
           \cup {ErrBackoffCancelled(t) : t \in BackoffTypes} :
        ENABLED (Step(c) /\ pc'[c] = "return" /\ result'[c].err = Some(e))}

\* c can return a Response next
CanReturnResp(c) == ENABLED (Step(c) /\ pc'[c] = "return" /\ result'[c].resp # Nil)

\* a SendKVReq call c and a SendCopReq call d are at the same place of their
\* loops with the same region, snapshot, last answer, context and backoffer
SamePlace(c, d) ==
    /\ IsKV(c) /\ ~IsKV(d)
    /\ pc[c] = pc[d]
    /\ call[c].regionID = call[d].regionID
    /\ region[c] = region[d]
    /\ (resp[c] = Nil) = (resp[d] = Nil)
    /\ resp[c] # Nil => resp[c][1].RegionError = resp[d][1].RegionError
    /\ ctxDone[c] = ctxDone[d]
    /\ backoff[c] = backoff[d]

\* C16: SendKVReq and SendCopReq run the same algorithm: from the same place
\* they make the same collaborator call next and end with the same outcome.
C16_SameAlgorithm ==
    \A c, d \in Calls :
        SamePlace(c, d)
        => /\ NextCalls(c) = NextCalls(d)
           /\ NextErrs(c) = NextErrs(d)
           /\ CanReturnResp(c) = CanReturnResp(d)

\* C19: every transport call is made with the snapshot that the call resolved
\* after its previous transport call: the request context is that snapshot's,
\* the address is that snapshot's, and the snapshot is what the cache holds
\* for the region while no other call runs.
C19_FreshSnapshotPerAttempt ==
    [][\A c \in Calls :
          Did(c, "send")
          => /\ ops[c]["GetRegionByVerID"] = ops[c]["send"] + 1
             /\ region[c] # Nil
             /\ region[c] = GetRegionByVerID(call[c].regionID)
             /\ req'[c].Context = Some(GetContext(region[c][1]))
             /\ sentTo'[c] = Some(GetAddress(region[c][1]))]_vars

\* the second attempt went to peer 2 after NextPeer moved the region to it
C19_Witness ==
    \E c \in Calls :
        /\ ops[c]["send"] = 2 /\ ops[c]["GetRegionByVerID"] = 2
        /\ ops[c]["NextPeer"] = 1 /\ ops[c]["UpdateLeader"] = 0
        /\ sentTo[c] = Some(2)
        /\ req[c].Context = Some([RegionVerID |-> call[c].regionID, Peer |-> 2])

\* c resolves its region again after another call removed it from the cache
FindsRegionEvicted(c) ==
    /\ Did(c, "GetRegionByVerID")
    /\ region[c] # Nil
    /\ cache[call[c].regionID] = Nil
    /\ ops[c]["DropRegion"] = 0 /\ ops[c]["OnRegionStale"] = 0

\* C20: with several calls running concurrently on the shared cache, a call
\* that returns has a Response or an error and never both, keeps that outcome,
\* and a call whose region was removed by another call's recovery returns, at
\* its next resolution and without a transport call, the placeholder Response
\* whose region error is StaleEpoch with no new regions.
C20_ConcurrentCallsEndOnce ==
    [][\A c \in Calls :
          /\ pc'[c] = "return" => (result'[c].resp = Nil) # (result'[c].err = Nil)
          /\ pc'[c] # "return" => result'[c] = [resp |-> Nil, err |-> Nil]
          /\ pc[c] = "return" => pc'[c] = "return" /\ result'[c] = result[c]
          /\ FindsRegionEvicted(c)
             => /\ pc'[c] = "return"
                /\ result'[c].err = Nil /\ result'[c].resp # Nil
                /\ IsStaleEpochNoRegions(result'[c].resp[1])
                /\ Same(c, "send")]_vars

\* two running calls on one region: c's attempt failed, the other call's
\* recovery removed the region, and c returned the placeholder
C20_Witness ==
    \E c, d \in Calls :
        /\ c # d /\ call[c].regionID = call[d].regionID
        /\ Returned(c) /\ result[c].err = Nil /\ result[c].resp # Nil
        /\ IsStaleEpochNoRegions(result[c].resp[1])
        /\ ops[c]["send"] = 1 /\ ops[c]["sendErr"] = 1 /\ ops[c]["GetRegionByVerID"] = 2
        /\ ops[c]["DropRegion"] = 0 /\ ops[c]["OnRegionStale"] = 0
        /\ ops[d]["DropRegion"] + ops[d]["OnRegionStale"] >= 1

====
